---------------------------- MODULE Spec2Model ----------------------------
(***************************************************************************)
(* A model of src/helpers/pdf/index.ts: the rectangle text extractor       *)
(* (getTextInRect, rectIntersects), the page rasterizer                    *)
(* (renderPageToImage, cropCanvas), the newsletter processor               *)
(* (processNewsletter) and the batch scanner (scanNewsletters).            *)
(*                                                                         *)
(* Conventions.  A JavaScript string is a sequence of one-character        *)
(* strings.  An optional number (number | null | undefined) is a tuple:    *)
(* <<>> for null/undefined and <<n>> for the number n.  An optional        *)
(* property of an object is a field that is or is not in the record's      *)
(* DOMAIN.  Every await that can reject is a step that either succeeds or  *)
(* throws; a throw is never caught in this file except to be logged and    *)
(* re-thrown (renderPageToImage).                                          *)
(***************************************************************************)
EXTENDS Integers, Sequences, FiniteSets, TLC

VARIABLES
    \* ---- processNewsletter: one call's locals and position
    pc,            \* position in processNewsletter
    caller,        \* "none", "direct" (a caller of the export) or "scan"
    filePath,      \* the filePath argument
    opts,          \* the ProcessNewsletterOptions argument
    pageIdx,       \* position of the for..of over extractPagesToImage
    decoded,       \* pdfjs.getDocument has resolved in this call
    cleanups,      \* number of pdfDoc.cleanup() calls of this call
    failedAt,      \* <<step, kind>> of the await that rejected, <<>> when none
    fields,        \* dateText, description, issueText, editorialText, date, issueNumber, slug
    effects,       \* the filesystem effects of this call, in order
    retval,        \* what the call returned, <<>> when it has not
    diskAtCall,    \* the files that existed when the call was made
    \* ---- the filesystem
    disk,          \* the set of files that exist
    \* ---- scanNewsletters
    scanPc,        \* position in scanNewsletters
    pdfFiles,      \* the listing
    fileIdx,       \* position of the for await over pdfFiles
    started,       \* files whose processNewsletter call was made, in order
    completed,     \* files whose processNewsletter call returned, in order
    \* ---- calls of the pure helpers, for the claims about them
    riA, riB, riRes, riPc,           \* rectIntersects(riA, riB)
    gtPage, gtRect, gtRes, gtPc,     \* getTextInRect(gtPage, gtRect)
    rpPage, rpCrop, rpRes, rpPc      \* renderPageToImage(rpPage, rpCrop)

procVars == <<pc, caller, filePath, opts, pageIdx, decoded, cleanups, failedAt,
              fields, effects, retval, diskAtCall, disk>>
scanVars == <<scanPc, pdfFiles, fileIdx, started, completed>>
riVars == <<riA, riB, riRes, riPc>>
gtVars == <<gtPage, gtRect, gtRes, gtPc>>
rpVars == <<rpPage, rpCrop, rpRes, rpPc>>
helperVars == <<riVars, gtVars, rpVars>>
vars == <<procVars, scanVars, helperVars>>

-----------------------------------------------------------------------------
(* Bounds of the model *)

\* rectangle coordinates range over 0..MaxCoord
MaxCoord == 2
\* rectangle widths and heights range over 0..MaxSize
MaxSize == 2
\* a page of the extractor's check holds at most MaxItems items
MaxItems == 2
\* the newsletter directory holds files 1..NumFiles
NumFiles == 3
\* extractPagesToImage lists at most MaxExtract page numbers
MaxExtract == 2

-----------------------------------------------------------------------------
(* Values *)

\* null / undefined
Null == <<>>
Some(n) == <<n>>

Rect(x, y, w, h) == [x |-> x, y |-> y, width |-> w, height |-> h]

RectSet == {Rect(x, y, w, h) : x \in 0..MaxCoord, y \in 0..MaxCoord,
                               w \in 0..MaxSize, h \in 0..MaxSize}

\* const COVER_IMAGE_RECT
COVER_IMAGE_RECT == Rect(60, 333, 1068, 1201)
\* const EDITORIAL_RECT
EDITORIAL_RECT == Rect(80, 200, 1064, 800)
\* const dateRect, descriptionRect, issueRect of processNewsletter
dateRect == Rect(785, 97, 373, 120)
descriptionRect == Rect(49, 1540, 1093, 100)
issueRect == Rect(936, 244, 193, 73)

\* page.getViewport({ scale: 2.0 })
RENDER_SCALE == 2
\* toBuffer('image/jpeg', 60)
JPEG_QUALITY == 60

\* page.getViewport({scale}): the page's size times the scale
getViewport(page, scale) ==
    [width |-> page.width * scale, height |-> page.height * scale, scale |-> scale]

-----------------------------------------------------------------------------
(* rectIntersects *)

\* a boundary-inclusive comparison, as a slip of < for <= would give
rectIntersectsInclusive(rect1, rect2) ==
    /\ rect1.x <= rect2.x + rect2.width
    /\ rect1.x + rect1.width >= rect2.x
    /\ rect1.y <= rect2.y + rect2.height
    /\ rect1.y + rect1.height >= rect2.y

rectIntersects(rect1, rect2) ==
    /\ rect1.x < rect2.x + rect2.width
    /\ rect1.x + rect1.width > rect2.x
    /\ rect1.y < rect2.y + rect2.height
    /\ rect1.y + rect1.height > rect2.y

-----------------------------------------------------------------------------
(* getTextInRect *)

\* Array.prototype.join(' ') over strings
RECURSIVE JoinSpace(_)
JoinSpace(strs) ==
    IF strs = <<>> THEN <<>>
    ELSE IF Len(strs) = 1 THEN strs[1]
    ELSE strs[1] \o <<" ">> \o JoinSpace(Tail(strs))

\* the closure pdfRectToPixelRect of getTextInRect.  viewport.height is
\* page.height * scale, so the division by viewport.scale is exact.
pdfRectToPixelRect(pdfRect, viewport) ==
    LET pixelX == pdfRect.x * viewport.scale
        pixelY == ((viewport.height \div viewport.scale) - pdfRect.y) * viewport.scale
        pixelWidth == pdfRect.width * viewport.scale
        pixelHeight == pdfRect.height * viewport.scale
    IN  [height |-> pixelHeight, width |-> pixelWidth,
         x |-> pixelX, y |-> pixelY - pixelHeight]

\* item.width || 0, item.height || 0
OrZero(item, f) == IF f \in DOMAIN item THEN item[f] ELSE 0

\* a filter that forgets the height === 0 test
itemSelectedNoHeightTest(item, viewport, rect) ==
    IF "str" \in DOMAIN item
    THEN rectIntersects(
             pdfRectToPixelRect(
                 [height |-> OrZero(item, "height"), width |-> OrZero(item, "width"),
                  x |-> item.transform[5], y |-> item.transform[6]], viewport),
             rect)
    ELSE FALSE

\* the filter callback of getTextInRect (transform[4], transform[5] are the
\* fifth and sixth entries of the transform, 1-based here)
itemSelected(item, viewport, rect) ==
    IF "str" \in DOMAIN item
    THEN LET x == item.transform[5]
             y == item.transform[6]
             width == OrZero(item, "width")
             height == OrZero(item, "height")
         IN  IF height = 0
             THEN FALSE
             ELSE rectIntersects(
                      pdfRectToPixelRect(
                          [height |-> height, width |-> width, x |-> x, y |-> y],
                          viewport),
                      rect)
    ELSE FALSE

\* the map callback of getTextInRect
itemStr(item) == IF "str" \in DOMAIN item THEN item.str ELSE <<>>

RECURSIVE MapStr(_)
MapStr(items) ==
    IF items = <<>> THEN <<>> ELSE <<itemStr(Head(items))>> \o MapStr(Tail(items))

getTextInRect(page, rect) ==
    LET viewport == getViewport(page, RENDER_SCALE)
        kept == SelectSeq(page.items, LAMBDA item : itemSelected(item, viewport, rect))
    IN  JoinSpace(MapStr(kept))

-----------------------------------------------------------------------------
(* cropCanvas, renderPageToImage *)

\* A canvas is the region of the rendered page bitmap it shows: the origin
\* and size, in pixels of the bitmap.
cropCanvas(sourceCanvas, cropRect) ==
    [x |-> sourceCanvas.x + cropRect.x, y |-> sourceCanvas.y + cropRect.y,
     width |-> cropRect.width, height |-> cropRect.height]

\* canvas.toBuffer('image/jpeg', 60)
toBuffer(canvas, mime, quality) ==
    [mime |-> mime, quality |-> quality, x |-> canvas.x, y |-> canvas.y,
     width |-> canvas.width, height |-> canvas.height]

\* The value renderPageToImage resolves to when page.render resolves;
\* cropRect is Null when the argument is omitted.
renderPageToImage(page, cropRect) ==
    LET viewport == getViewport(page, RENDER_SCALE)
        canvas == [x |-> 0, y |-> 0, width |-> viewport.width, height |-> viewport.height]
    IN  IF cropRect # Null
        THEN toBuffer(cropCanvas(canvas, COVER_IMAGE_RECT), "image/jpeg", JPEG_QUALITY)
        ELSE toBuffer(canvas, "image/jpeg", JPEG_QUALITY)

-----------------------------------------------------------------------------
(* Strings, issueTextToIssueNumber, parseMonthYear, slug *)

HasSpace(s) == \E i \in 1..Len(s) : s[i] = " "
FirstSpace(s) == CHOOSE i \in 1..Len(s) : s[i] = " " /\ \A j \in 1..(i - 1) : s[j] # " "

\* String.prototype.split(' ')
RECURSIVE Split(_)
Split(s) ==
    IF ~HasSpace(s) THEN <<s>>
    ELSE LET i == FirstSpace(s)
         IN  <<SubSeq(s, 1, i - 1)>> \o Split(SubSeq(s, i + 1, Len(s)))

\* array[i] with a 0-based index i: <<element>>, or <<>> for undefined
At(array, i) == IF (i + 1) \in DOMAIN array THEN <<array[i + 1]>> ELSE <<>>

Digits == {"0", "1", "2", "3", "4", "5", "6", "7", "8", "9"}
DigitVal(c) ==
    CASE c = "0" -> 0 [] c = "1" -> 1 [] c = "2" -> 2 [] c = "3" -> 3 [] c = "4" -> 4
      [] c = "5" -> 5 [] c = "6" -> 6 [] c = "7" -> 7 [] c = "8" -> 8 [] c = "9" -> 9

RECURSIVE Decimal(_)
Decimal(s) ==
    IF s = <<>> THEN 0 ELSE 10 * Decimal(SubSeq(s, 1, Len(s) - 1)) + DigitVal(s[Len(s)])

IsNumeric(s) == s # <<>> /\ \A i \in 1..Len(s) : s[i] \in Digits

\* safeParseInt of ../number: the integer a numeric text denotes, null for
\* undefined and for a text that is not numeric
safeParseInt(value) ==
    IF value = <<>> THEN Null
    ELSE IF IsNumeric(value[1]) THEN Some(Decimal(value[1])) ELSE Null

\* a version reading the first token, as an off-by-one in the index would
issueTextToIssueNumberFirstToken(issueText) ==
    safeParseInt(At(Split(issueText), 0))

issueTextToIssueNumber(issueText) ==
    LET issueNumber == At(Split(issueText), 1)
    IN  safeParseInt(issueNumber)

MonthNames == <<
    <<"J","a","n","u","a","r","y">>, <<"F","e","b","r","u","a","r","y">>,
    <<"M","a","r","c","h">>, <<"A","p","r","i","l">>, <<"M","a","y">>,
    <<"J","u","n","e">>, <<"J","u","l","y">>, <<"A","u","g","u","s","t">>,
    <<"S","e","p","t","e","m","b","e","r">>, <<"O","c","t","o","b","e","r">>,
    <<"N","o","v","e","m","b","e","r">>, <<"D","e","c","e","m","b","e","r">> >>

\* parseMonthYear of ../date: a "<month name> <year>" text as a date (its
\* year and zero-based month), null for any other text
parseMonthYear(text) ==
    LET tokens == Split(text)
    IN  IF /\ Len(tokens) = 2
           /\ \E m \in 1..12 : MonthNames[m] = tokens[1]
           /\ IsNumeric(tokens[2]) /\ Len(tokens[2]) = 4
        THEN Some([year |-> Decimal(tokens[2]),
                   month |-> (CHOOSE m \in 1..12 : MonthNames[m] = tokens[1]) - 1])
        ELSE Null

\* date?.getFullYear(), date?.getMonth()
getFullYearOpt(date) == IF date = Null THEN Null ELSE Some(date[1].year)
getMonthOpt(date) == IF date = Null THEN Null ELSE Some(date[1].month)

\* slugify of ../string applied to
\* `newsletter-${date?.getFullYear()}-${date?.getMonth()}-${issueNumber}`:
\* the text is kept as its three interpolated values
slugify(year, month, issueNumber) == <<year, month, issueNumber>>

-----------------------------------------------------------------------------
(* Documents *)

TextItem(str, x, y, w, h) ==
    [str |-> str, transform |-> <<1, 0, 0, 1, x, y>>, width |-> w, height |-> h]
MarkedContent == [type |-> "beginMarkedContent"]

S_March2024 == <<"M","a","r","c","h"," ","2","0","2","4">>
S_Spring == <<"S","p","r","i","n","g">>
S_Issue == <<"I","s","s","u","e">>
S_42 == <<"4","2">>
S_x7 == <<"x","7">>
S_News == <<"N","e","w","s">>
S_Hello == <<"H","e","l","l","o">>
S_Issue42 == S_Issue \o <<" ">> \o S_42

\* the page size in document units (A4)
PageSize == [width |-> 595, height |-> 842]

EmptyPage == [width |-> PageSize.width, height |-> PageSize.height, items |-> <<>>]
PageOf(items) == [width |-> PageSize.width, height |-> PageSize.height, items |-> items]

\* a six-page issue whose fields all parse
DocA == <<
    PageOf(<<MarkedContent,
             TextItem(S_March2024, 400, 760, 100, 20),
             TextItem(S_Spring, 400, 760, 100, 0),
             TextItem(S_Issue, 480, 700, 20, 10),
             TextItem(S_42, 505, 700, 10, 10),
             TextItem(S_News, 50, 40, 100, 10)>>),
    EmptyPage,
    PageOf(<<TextItem(S_Hello, 100, 600, 100, 10)>>),
    EmptyPage, EmptyPage, EmptyPage >>

\* a six-page issue whose date is no month+year and whose issue text has
\* no second token
DocB == <<
    PageOf(<<TextItem(S_Spring, 400, 760, 100, 20),
             TextItem(S_Issue, 480, 700, 20, 10)>>),
    EmptyPage, EmptyPage, EmptyPage, EmptyPage, EmptyPage >>

\* a three-page issue whose issue text has a non-numeric second token
DocC == <<
    PageOf(<<TextItem(S_March2024, 400, 760, 100, 20),
             TextItem(S_Issue, 480, 700, 20, 10),
             TextItem(S_x7, 505, 700, 10, 10)>>),
    EmptyPage,
    PageOf(<<TextItem(S_Hello, 100, 600, 100, 10)>>) >>

\* the document stored in file f of the newsletter directory
DocOf(f) == CASE f % 3 = 1 -> DocA [] f % 3 = 2 -> DocB [] OTHER -> DocC

-----------------------------------------------------------------------------
(* Files and options *)

\* const NEWSLETTERS_DIR
NEWSLETTERS_DIR == "newsletter"

File(dir, kind, slug, n) == [dir |-> dir, kind |-> kind, slug |-> slug, n |-> n]

\* the path of the f-th .pdf file of the newsletter directory
Source(f) == File(NEWSLETTERS_DIR, "source", <<>>, f)

\* path.resolve(outputImageDir, `${slug}-cover.jpg`) and the like
CoverFile(dir, slug) == File(dir, "cover.jpg", slug, 0)
PageFile(dir, slug, pageNumber) == File(dir, "page.jpg", slug, pageNumber)
JsonFile(dir, slug) == File(dir, "json", slug, 0)
PdfFile(dir, slug) == File(dir, "pdf", slug, 0)

Write(file) == [op |-> "write", file |-> file]
Remove(file) == [op |-> "rm", file |-> file]

\* the page numbers a caller asks for
PageNumbers == {2, 5}
ExtractLists == UNION {[1..n -> PageNumbers] : n \in 0..MaxExtract}

\* interface ProcessNewsletterOptions; an omitted property is Null
\* (removeAfterProcessing: omitted and false are both FALSE)
OptionSet ==
    [extractPagesToImage : {Null} \cup {Some(l) : l \in ExtractLists},
     outputDataDir : {Null, Some("data")},
     outputImageDir : {Null, Some("img")},
     outputPdfDir : {Null, Some("pdf")},
     removeAfterProcessing : BOOLEAN]

\* the default value {} of the options parameter
DefaultOptions ==
    [extractPagesToImage |-> Null, outputDataDir |-> Null, outputImageDir |-> Null,
     outputPdfDir |-> Null, removeAfterProcessing |-> FALSE]

NoFields ==
    [dateText |-> <<>>, description |-> <<>>, issueText |-> <<>>, editorialText |-> <<>>,
     date |-> Null, issueNumber |-> Null, slug |-> <<>>]

-----------------------------------------------------------------------------
(* processNewsletter *)

\* The statements of processNewsletter after the field extraction, in
\* program order: each names the one that follows it.
stepAfterRemoveFirst(step) ==
    CASE step = "fields" -> "rm"
      [] step = "rm" -> "cover"
      [] step = "cover" -> "pages"
      [] step = "pages" -> "json"
      [] step = "json" -> "pdf"
      [] step = "pdf" -> "cleanup"

\* the JSON file written before the images
stepAfterJsonFirst(step) ==
    CASE step = "fields" -> "json"
      [] step = "json" -> "cover"
      [] step = "cover" -> "pages"
      [] step = "pages" -> "pdf"
      [] step = "pdf" -> "rm"
      [] step = "rm" -> "cleanup"

stepAfter(step) ==
    CASE step = "fields" -> "cover"
      [] step = "cover" -> "pages"
      [] step = "pages" -> "json"
      [] step = "json" -> "pdf"
      [] step = "pdf" -> "rm"
      [] step = "rm" -> "cleanup"

\* a removal that ignores the flag
removeEnabledAlways(o) == TRUE

\* if (outputImageDir), if (outputDataDir), if (outputPdfDir), if (removeAfterProcessing)
imageEnabled(o) == o.outputImageDir # Null
dataEnabled(o) == o.outputDataDir # Null
pdfEnabled(o) == o.outputPdfDir # Null
removeEnabled(o) == o.removeAfterProcessing

\* an await rejects: the error leaves processNewsletter, which has no try
Throw(kind) == pc' = "failed" /\ failedAt' = <<pc, kind>>

\* the call: parameters bound, nothing done yet
CallProcess(f, o, who) ==
    /\ pc' = "read"
    /\ caller' = who
    /\ filePath' = f
    /\ opts' = o
    /\ pageIdx' = 0
    /\ decoded' = FALSE
    /\ cleanups' = 0
    /\ failedAt' = <<>>
    /\ fields' = NoFields
    /\ effects' = <<>>
    /\ retval' = <<>>
    /\ diskAtCall' = disk
    /\ UNCHANGED disk

\* a caller of the exported processNewsletter
DirectCall ==
    /\ pc = "idle" /\ caller = "none" /\ scanPc = "idle"
    /\ \E f \in 1..NumFiles, o \in OptionSet : CallProcess(f, o, "direct")
    /\ UNCHANGED <<scanVars, helperVars>>

\* Bun.file(filePath).arrayBuffer(); pdfjs.getDocument({data}).promise
ReadAndDecode ==
    /\ pc = "read"
    /\ \E ok \in BOOLEAN :
          IF ok /\ Source(filePath) \in disk
          THEN decoded' = TRUE /\ pc' = "getPages" /\ UNCHANGED failedAt
          ELSE Throw("decode") /\ UNCHANGED decoded
    /\ UNCHANGED <<caller, filePath, opts, pageIdx, cleanups, fields, effects, retval,
                   disk, diskAtCall>>
    /\ UNCHANGED <<scanVars, helperVars>>

\* pdfDoc.getPage(1); pdfDoc.getPage(3)
GetPages ==
    /\ pc = "getPages"
    /\ \E ok \in BOOLEAN :
          IF ok /\ Len(DocOf(filePath)) >= 3
          THEN pc' = "fields" /\ UNCHANGED failedAt
          ELSE Throw("getPage")
    /\ UNCHANGED <<caller, filePath, opts, pageIdx, decoded, cleanups, fields, effects,
                   retval, disk, diskAtCall>>
    /\ UNCHANGED <<scanVars, helperVars>>

\* the four getTextInRect calls, parseMonthYear, issueTextToIssueNumber, slugify
extractedFields(doc) ==
    LET firstPage == doc[1]
        editorialPage == doc[3]
        dateText == getTextInRect(firstPage, dateRect)
        description == getTextInRect(firstPage, descriptionRect)
        issueText == getTextInRect(firstPage, issueRect)
        editorialText == getTextInRect(editorialPage, EDITORIAL_RECT)
        date == parseMonthYear(dateText)
        issueNumber == issueTextToIssueNumber(issueText)
        slug == slugify(getFullYearOpt(date), getMonthOpt(date), issueNumber)
    IN  [dateText |-> dateText, description |-> description, issueText |-> issueText,
         editorialText |-> editorialText, date |-> date, issueNumber |-> issueNumber,
         slug |-> slug]

ExtractFields ==
    /\ pc = "fields"
    /\ \E ok \in BOOLEAN :
          IF ok
          THEN fields' = extractedFields(DocOf(filePath)) /\ pc' = stepAfter("fields")
               /\ UNCHANGED failedAt
          ELSE Throw("getTextContent") /\ UNCHANGED fields
    /\ UNCHANGED <<caller, filePath, opts, pageIdx, decoded, cleanups, effects, retval,
                   disk, diskAtCall>>
    /\ UNCHANGED <<scanVars, helperVars>>

\* if (outputImageDir) { render the cover, write it ...
CoverImage ==
    /\ pc = "cover"
    /\ IF ~imageEnabled(opts)
       THEN pc' = stepAfter("pages") /\ UNCHANGED <<failedAt, effects, disk>>
       ELSE \E renderOk \in BOOLEAN, writeOk \in BOOLEAN :
               IF renderOk /\ writeOk
               THEN LET file == CoverFile(opts.outputImageDir[1], fields.slug)
                    IN  /\ disk' = disk \cup {file}
                        /\ effects' = Append(effects, Write(file))
                        /\ pc' = stepAfter("cover")
                        /\ UNCHANGED failedAt
               ELSE Throw(IF renderOk THEN "write" ELSE "render")
                    /\ UNCHANGED <<effects, disk>>
    /\ UNCHANGED <<caller, filePath, opts, pageIdx, decoded, cleanups, fields, retval,
                   diskAtCall>>
    /\ UNCHANGED <<scanVars, helperVars>>

\* ... if (extractPagesToImage) for (const pageNumber of extractPagesToImage) }
PageImage ==
    /\ pc = "pages"
    /\ IF opts.extractPagesToImage = Null
          \/ pageIdx >= Len(opts.extractPagesToImage[1])
       THEN pc' = stepAfter("pages") /\ UNCHANGED <<failedAt, effects, disk, pageIdx>>
       ELSE LET pageNumber == opts.extractPagesToImage[1][pageIdx + 1]
                file == PageFile(opts.outputImageDir[1], fields.slug, pageNumber)
            IN  \E renderOk \in BOOLEAN, writeOk \in BOOLEAN :
                   IF ~(pageNumber \in 1..Len(DocOf(filePath)))
                   THEN Throw("getPage") /\ UNCHANGED <<effects, disk, pageIdx>>
                   ELSE IF renderOk /\ writeOk
                   THEN /\ disk' = disk \cup {file}
                        /\ effects' = Append(effects, Write(file))
                        /\ pageIdx' = pageIdx + 1
                        /\ UNCHANGED <<pc, failedAt>>
                   ELSE Throw(IF renderOk THEN "write" ELSE "render")
                        /\ UNCHANGED <<effects, disk, pageIdx>>
    /\ UNCHANGED <<caller, filePath, opts, decoded, cleanups, fields, retval, diskAtCall>>
    /\ UNCHANGED <<scanVars, helperVars>>

\* if (outputDataDir) Bun.write(<slug>.json, JSON.stringify(...))
WriteJson ==
    /\ pc = "json"
    /\ IF ~dataEnabled(opts)
       THEN pc' = stepAfter("json") /\ UNCHANGED <<failedAt, effects, disk>>
       ELSE \E ok \in BOOLEAN :
               IF ok
               THEN LET file == JsonFile(opts.outputDataDir[1], fields.slug)
                    IN  /\ disk' = disk \cup {file}
                        /\ effects' = Append(effects, Write(file))
                        /\ pc' = stepAfter("json")
                        /\ UNCHANGED failedAt
               ELSE Throw("write") /\ UNCHANGED <<effects, disk>>
    /\ UNCHANGED <<caller, filePath, opts, pageIdx, decoded, cleanups, fields, retval,
                   diskAtCall>>
    /\ UNCHANGED <<scanVars, helperVars>>

\* if (outputPdfDir) Bun.write(<slug>.pdf, Bun.file(filePath))
CopyPdf ==
    /\ pc = "pdf"
    /\ IF ~pdfEnabled(opts)
       THEN pc' = stepAfter("pdf") /\ UNCHANGED <<failedAt, effects, disk>>
       ELSE \E ok \in BOOLEAN :
               IF ok /\ Source(filePath) \in disk
               THEN LET file == PdfFile(opts.outputPdfDir[1], fields.slug)
                    IN  /\ disk' = disk \cup {file}
                        /\ effects' = Append(effects, Write(file))
                        /\ pc' = stepAfter("pdf")
                        /\ UNCHANGED failedAt
               ELSE Throw("write") /\ UNCHANGED <<effects, disk>>
    /\ UNCHANGED <<caller, filePath, opts, pageIdx, decoded, cleanups, fields, retval,
                   diskAtCall>>
    /\ UNCHANGED <<scanVars, helperVars>>

\* if (removeAfterProcessing) Bun.$`rm ${filePath}`
RemoveSource ==
    /\ pc = "rm"
    /\ IF ~removeEnabled(opts)
       THEN pc' = stepAfter("rm") /\ UNCHANGED <<failedAt, effects, disk>>
       ELSE \E ok \in BOOLEAN :
               IF ok /\ Source(filePath) \in disk
               THEN /\ disk' = disk \ {Source(filePath)}
                    /\ effects' = Append(effects, Remove(Source(filePath)))
                    /\ pc' = stepAfter("rm")
                    /\ UNCHANGED failedAt
               ELSE Throw("rm") /\ UNCHANGED <<effects, disk>>
    /\ UNCHANGED <<caller, filePath, opts, pageIdx, decoded, cleanups, fields, retval,
                   diskAtCall>>
    /\ UNCHANGED <<scanVars, helperVars>>

\* the value processNewsletter returns
returnValue ==
    [metadata |-> [issueDate |-> fields.date, issueNumber |-> fields.issueNumber],
     path |-> filePath,
     slug |-> fields.slug,
     text |-> [date |-> fields.dateText, description |-> fields.description,
               editorial |-> fields.editorialText, issue |-> fields.issueText]]

\* await pdfDoc.cleanup(); return {...}
Cleanup ==
    /\ pc = "cleanup"
    /\ cleanups' = cleanups + 1
    /\ retval' = Some(returnValue)
    /\ pc' = "returned"
    /\ UNCHANGED <<caller, filePath, opts, pageIdx, decoded, failedAt, fields, effects,
                   disk, diskAtCall>>
    /\ UNCHANGED <<scanVars, helperVars>>

-----------------------------------------------------------------------------
(* scanNewsletters *)

\* the listing of `ls ${NEWSLETTERS_DIR}/*.pdf`: the files, sorted by name
RECURSIVE Listing(_, _)
Listing(files, from) ==
    IF from > NumFiles THEN <<>>
    ELSE (IF Source(from) \in files THEN <<from>> ELSE <<>>) \o Listing(files, from + 1)

\* a scan that passes removeAfterProcessing
scanCallOptionsRemoving == [DefaultOptions EXCEPT !.removeAfterProcessing = TRUE]

\* processNewsletter(file): the options argument is omitted
scanCallOptions == DefaultOptions

\* a scan that catches a document's failure and goes on to the next file
scanOnRejectCaught == [scanPc |-> "loop", fileIdx |-> fileIdx + 1, pc |-> "idle"]

\* a rejected processNewsletter is not caught: scanNewsletters rejects
scanOnReject == [scanPc |-> "thrown", fileIdx |-> fileIdx, pc |-> pc]

ScanStart ==
    /\ pc = "idle" /\ caller = "none" /\ scanPc = "idle"
    /\ scanPc' = "list"
    /\ caller' = "scan"
    /\ UNCHANGED <<pdfFiles, fileIdx, started, completed>>
    /\ UNCHANGED <<pc, filePath, opts, pageIdx, decoded, cleanups, failedAt, fields,
                   effects, retval, diskAtCall, disk>>
    /\ UNCHANGED helperVars

\* ls exits non-zero when no file matches, and Bun.$ then throws
ScanList ==
    /\ scanPc = "list"
    /\ \E ok \in BOOLEAN :
          IF ok /\ Listing(disk, 1) # <<>>
          THEN /\ pdfFiles' = Listing(disk, 1)
               /\ fileIdx' = 1
               /\ scanPc' = "loop"
          ELSE scanPc' = "thrown" /\ UNCHANGED <<pdfFiles, fileIdx>>
    /\ UNCHANGED <<started, completed>>
    /\ UNCHANGED <<procVars, helperVars>>

\* for await (const file of pdfFiles) processNewsletter(file)
ScanCall ==
    /\ scanPc = "loop" /\ pc = "idle"
    /\ fileIdx <= Len(pdfFiles)
    /\ CallProcess(pdfFiles[fileIdx], scanCallOptions, "scan")
    /\ started' = Append(started, pdfFiles[fileIdx])
    /\ UNCHANGED <<scanPc, pdfFiles, fileIdx, completed>>
    /\ UNCHANGED helperVars

\* log.debug('result', result); next iteration
ScanResult ==
    /\ scanPc = "loop" /\ caller = "scan" /\ pc = "returned"
    /\ completed' = Append(completed, filePath)
    /\ fileIdx' = fileIdx + 1
    /\ pc' = "idle"
    /\ UNCHANGED <<scanPc, pdfFiles, started>>
    /\ UNCHANGED <<caller, filePath, opts, pageIdx, decoded, cleanups, failedAt, fields,
                   effects, retval, diskAtCall, disk>>
    /\ UNCHANGED helperVars

ScanReject ==
    /\ scanPc = "loop" /\ caller = "scan" /\ pc = "failed"
    /\ scanPc' = scanOnReject.scanPc
    /\ fileIdx' = scanOnReject.fileIdx
    /\ pc' = scanOnReject.pc
    /\ UNCHANGED <<pdfFiles, started, completed>>
    /\ UNCHANGED <<caller, filePath, opts, pageIdx, decoded, cleanups, failedAt, fields,
                   effects, retval, diskAtCall, disk>>
    /\ UNCHANGED helperVars

ScanDone ==
    /\ scanPc = "loop" /\ pc = "idle"
    /\ fileIdx > Len(pdfFiles)
    /\ scanPc' = "done"
    /\ UNCHANGED <<pdfFiles, fileIdx, started, completed>>
    /\ UNCHANGED <<procVars, helperVars>>

-----------------------------------------------------------------------------
(* The program *)

ProgramIdle ==
    /\ pc = "idle"
    /\ caller = "none"
    /\ filePath = 0
    /\ opts = DefaultOptions
    /\ pageIdx = 0
    /\ decoded = FALSE
    /\ cleanups = 0
    /\ failedAt = <<>>
    /\ fields = NoFields
    /\ effects = <<>>
    /\ retval = <<>>
    /\ scanPc = "idle"
    /\ pdfFiles = <<>>
    /\ fileIdx = 0
    /\ started = <<>>
    /\ completed = <<>>

\* the newsletter directory holds the first n files, and no output exists
InitProgram ==
    /\ ProgramIdle
    /\ \E n \in 0..NumFiles : disk = {Source(f) : f \in 1..n}
    /\ diskAtCall = disk

\* the helpers' checks touch no file
NoProgram == ProgramIdle /\ disk = {} /\ diskAtCall = {}

NoRectCall == riA = Rect(0, 0, 0, 0) /\ riB = Rect(0, 0, 0, 0) /\ riRes = FALSE /\ riPc = "none"
NoTextCall == gtPage = EmptyPage /\ gtRect = Rect(0, 0, 0, 0) /\ gtRes = <<>> /\ gtPc = "none"
NoRenderCall == rpPage = EmptyPage /\ rpCrop = Null /\ rpRes = Null /\ rpPc = "none"

Init == InitProgram /\ NoRectCall /\ NoTextCall /\ NoRenderCall

Next ==
    \/ DirectCall
    \/ ReadAndDecode
    \/ GetPages
    \/ ExtractFields
    \/ CoverImage
    \/ PageImage
    \/ WriteJson
    \/ CopyPdf
    \/ RemoveSource
    \/ Cleanup
    \/ ScanStart
    \/ ScanList
    \/ ScanCall
    \/ ScanResult
    \/ ScanReject
    \/ ScanDone

Spec == Init /\ [][Next]_vars

-----------------------------------------------------------------------------
(* rectIntersects applied to every pair of rectangles of RectSet *)

InitIntersects ==
    /\ NoProgram /\ NoTextCall /\ NoRenderCall
    /\ riA \in RectSet /\ riB \in RectSet
    /\ riRes = FALSE
    /\ riPc = "call"

CallRectIntersects ==
    /\ riPc = "call"
    /\ riRes' = rectIntersects(riA, riB)
    /\ riPc' = "done"
    /\ UNCHANGED <<riA, riB, gtVars, rpVars, procVars, scanVars>>

NextIntersects == CallRectIntersects

SpecIntersects == InitIntersects /\ [][NextIntersects]_vars

-----------------------------------------------------------------------------
(* getTextInRect applied to small pages and target rectangles *)

S_a == <<"a">>
S_b == <<"b">>

\* the items of a small page: text items with and without a width, with a
\* height of 0 or 1, and a marked-content item, which has no str
SmallItems ==
    {TextItem(s, x, y, 1, h) : s \in {S_a, S_b}, x \in 0..1, y \in 0..1, h \in 0..1}
    \cup {[str |-> s, transform |-> <<1, 0, 0, 1, x, y>>, height |-> 1] :
              s \in {S_a, S_b}, x \in 0..1, y \in 0..1}
    \cup {MarkedContent}

\* pages 2 wide and 2 high in document units: a 4 x 4 bitmap at scale 2
SmallPages ==
    {[width |-> 2, height |-> 2, items |-> items] :
         items \in UNION {[1..n -> SmallItems] : n \in 0..MaxItems}}

TargetRects ==
    {Rect(0, 0, 2, 2), Rect(2, 0, 2, 2), Rect(1, 2, 2, 2),
     Rect(0, 0, 4, 4), Rect(0, 2, 4, 2), Rect(3, 1, 2, 1)}

InitText ==
    /\ NoProgram /\ NoRectCall /\ NoRenderCall
    /\ gtPage \in SmallPages /\ gtRect \in TargetRects
    /\ gtRes = <<>>
    /\ gtPc = "call"

CallGetTextInRect ==
    /\ gtPc = "call"
    /\ gtRes' = getTextInRect(gtPage, gtRect)
    /\ gtPc' = "done"
    /\ UNCHANGED <<gtPage, gtRect, riVars, rpVars, procVars, scanVars>>

NextText == CallGetTextInRect

SpecText == InitText /\ [][NextText]_vars

-----------------------------------------------------------------------------
(* renderPageToImage applied with and without a crop rectangle *)

CropRects == {r \in RectSet : r.width > 0 /\ r.height > 0} \cup {COVER_IMAGE_RECT}

InitRender ==
    /\ NoProgram /\ NoRectCall /\ NoTextCall
    /\ rpPage = EmptyPage
    /\ rpCrop \in {Null} \cup {Some(r) : r \in CropRects}
    /\ rpRes = Null
    /\ rpPc = "call"

\* page.render(renderContext).promise resolves
RenderResolves ==
    /\ rpPc = "call"
    /\ rpRes' = Some(renderPageToImage(rpPage, rpCrop))
    /\ rpPc' = "resolved"
    /\ UNCHANGED <<rpPage, rpCrop, riVars, gtVars, procVars, scanVars>>

\* page.render rejects: the error is logged and thrown again
RenderRejects ==
    /\ rpPc = "call"
    /\ rpPc' = "rejected"
    /\ UNCHANGED <<rpPage, rpCrop, rpRes, riVars, gtVars, procVars, scanVars>>

NextRender == RenderResolves \/ RenderRejects

SpecRender == InitRender /\ [][NextRender]_vars

-----------------------------------------------------------------------------
(* Properties of rectIntersects *)

\* each rectangle starts strictly before the other ends, on both axes
StrictOverlap(a, b) ==
    /\ a.x < b.x + b.width /\ b.x < a.x + a.width
    /\ a.y < b.y + b.height /\ b.y < a.y + a.height

\* the two rectangles share an edge: one ends where the other starts
ShareEdge(a, b) ==
    \/ a.x + a.width = b.x \/ b.x + b.width = a.x
    \/ a.y + a.height = b.y \/ b.y + b.height = a.y

\* C7: rectIntersects(A, B) is true exactly when, on both axes, each
\* rectangle's start is strictly less than the other's end; it is symmetric
\* in A and B; and two rectangles that share an edge do not intersect.
C7_RectIntersects ==
    riPc = "done" =>
        /\ riRes = StrictOverlap(riA, riB)
        /\ riRes = rectIntersects(riB, riA)
        /\ ShareEdge(riA, riB) => ~riRes

\* C7 witness: A ends at x where B starts, their y ranges overlap, and the
\* call answered that they do not intersect
C7_Witness ==
    /\ riPc = "done"
    /\ riA.width > 0 /\ riB.width > 0
    /\ riA.x + riA.width = riB.x
    /\ riA.y = riB.y /\ riA.height > 0 /\ riB.height > 0
    /\ ~riRes

-----------------------------------------------------------------------------
(* Properties of getTextInRect *)

IsFragment(item) == "str" \in DOMAIN item
FragHeight(item) == IF "height" \in DOMAIN item THEN item.height ELSE 0
FragWidth(item) == IF "width" \in DOMAIN item THEN item.width ELSE 0

\* the fragment's bounding box in the pixel space of the page's bitmap at
\* scale 2: x doubles, y is measured down from the top edge of the box
PixelBox(item, page) ==
    [x |-> 2 * item.transform[5],
     y |-> 2 * (page.height - item.transform[6] - FragHeight(item)),
     width |-> 2 * FragWidth(item),
     height |-> 2 * FragHeight(item)]

\* the target rectangle mapped to pixel space the same way
PixelTarget(rect, page) ==
    [x |-> 2 * rect.x, y |-> 2 * (page.height - rect.y - rect.height),
     width |-> 2 * rect.width, height |-> 2 * rect.height]

Inside(box, rect) ==
    /\ rect.x <= box.x /\ box.x + box.width <= rect.x + rect.width
    /\ rect.y <= box.y /\ box.y + box.height <= rect.y + rect.height

Outside(box, rect) ==
    \/ box.x + box.width <= rect.x \/ rect.x + rect.width <= box.x
    \/ box.y + box.height <= rect.y \/ rect.y + rect.height <= box.y

\* the strings l[1], ..., l[n] with one space between neighbours
RECURSIVE JoinedUpTo(_, _)
JoinedUpTo(l, n) ==
    IF n = 0 THEN <<>>
    ELSE IF n = 1 THEN l[1]
    ELSE JoinedUpTo(l, n - 1) \o <<" ">> \o l[n]

\* the texts, in the page's order, of the fragments of non-zero height
\* whose pixel box overlaps the rectangle `against`
RECURSIVE QualifyingTexts(_, _, _)
QualifyingTexts(items, page, against) ==
    IF items = <<>> THEN <<>>
    ELSE LET item == Head(items)
             rest == QualifyingTexts(Tail(items), page, against)
         IN  IF /\ IsFragment(item)
                /\ FragHeight(item) # 0
                /\ StrictOverlap(PixelBox(item, page), against)
             THEN <<item.str>> \o rest
             ELSE rest

ExpectedText(page, against) ==
    LET texts == QualifyingTexts(page.items, page, against)
    IN  JoinedUpTo(texts, Len(texts))

AllTexts(page) ==
    JoinedUpTo([i \in 1..Len(page.items) |-> page.items[i].str], Len(page.items))

-----------------------------------------------------------------------------
(* Properties of renderPageToImage *)

\* C6: with a crop rectangle the returned image is the 2x bitmap cropped to
\* the supplied rectangle (its x, y, width and height taken as pixels);
\* without one it is the full bitmap.
C6_CropsToSuppliedRect ==
    rpPc = "resolved" =>
        IF rpCrop = Null
        THEN /\ rpRes[1].x = 0 /\ rpRes[1].y = 0
             /\ rpRes[1].width = 2 * rpPage.width
             /\ rpRes[1].height = 2 * rpPage.height
        ELSE /\ rpRes[1].x = rpCrop[1].x /\ rpRes[1].y = rpCrop[1].y
             /\ rpRes[1].width = rpCrop[1].width
             /\ rpRes[1].height = rpCrop[1].height

-----------------------------------------------------------------------------
(* Properties of processNewsletter *)

Set(o) == o # Null

\* the pages a configuration asks to extract, <<>> when it names none
RequestedPages(o) ==
    IF Set(o.extractPagesToImage) THEN o.extractPagesToImage[1] ELSE <<>>

\* the files a configuration asks for, for a document with the given slug
ImageFiles(o, slug) ==
    IF Set(o.outputImageDir)
    THEN {File("img", "cover.jpg", slug, 0)}
         \cup {File("img", "page.jpg", slug, RequestedPages(o)[i]) :
                   i \in 1..Len(RequestedPages(o))}
    ELSE {}
DataFiles(o, slug) == IF Set(o.outputDataDir) THEN {File("data", "json", slug, 0)} ELSE {}
PdfFiles(o, slug) == IF Set(o.outputPdfDir) THEN {File("pdf", "pdf", slug, 0)} ELSE {}
ConfiguredFiles(o, slug) == ImageFiles(o, slug) \cup DataFiles(o, slug) \cup PdfFiles(o, slug)

\* the configured effects in the order cover, pages, JSON, PDF, removal
ConfiguredEffects(o, slug, f) ==
    (IF Set(o.outputImageDir)
     THEN <<Write(File("img", "cover.jpg", slug, 0))>>
          \o [i \in 1..Len(RequestedPages(o)) |->
                  Write(File("img", "page.jpg", slug, RequestedPages(o)[i]))]
     ELSE <<>>)
    \o (IF Set(o.outputDataDir) THEN <<Write(File("data", "json", slug, 0))>> ELSE <<>>)
    \o (IF Set(o.outputPdfDir) THEN <<Write(File("pdf", "pdf", slug, 0))>> ELSE <<>>)
    \o (IF o.removeAfterProcessing THEN <<Remove(Source(f))>> ELSE <<>>)

\* the configured writes alone
ConfiguredWrites(o, slug) ==
    ConfiguredEffects([o EXCEPT !.removeAfterProcessing = FALSE], slug, 0)

Written == {effects[i].file : i \in {j \in 1..Len(effects) : effects[j].op = "write"}}
Removed == {effects[i].file : i \in {j \in 1..Len(effects) : effects[j].op = "rm"}}

IsPrefix(p, q) == Len(p) <= Len(q) /\ p = SubSeq(q, 1, Len(p))

InCall == pc \notin {"idle"}

\* C2: a call in which no step fails writes exactly the configured files
\* (cover and requested pages iff outputImageDir, JSON iff outputDataDir,
\* PDF iff outputPdfDir), deletes the source iff removeAfterProcessing, and
\* changes nothing else on disk; with nothing configured it does nothing.
C2_ExactEffects ==
    pc = "returned" =>
        /\ Written = ConfiguredFiles(opts, fields.slug)
        /\ Removed = (IF opts.removeAfterProcessing THEN {Source(filePath)} ELSE {})
        /\ disk = (diskAtCall \cup ConfiguredFiles(opts, fields.slug)) \ Removed
        /\ (opts.outputImageDir # Null /\ opts.extractPagesToImage = Some(<<5>>))
           => {f \in Written : f.dir = "img"}
                  = {File("img", "cover.jpg", fields.slug, 0),
                     File("img", "page.jpg", fields.slug, 5)}
        /\ (/\ opts.outputImageDir = Null /\ opts.outputDataDir = Null
            /\ opts.outputPdfDir = Null /\ ~opts.removeAfterProcessing)
           => effects = <<>> /\ disk = diskAtCall

\* C2 witness: a call with outputImageDir and extractPagesToImage = [5] and
\* nothing else returned, having written its two image files
C2_Witness ==
    /\ pc = "returned" /\ caller = "direct"
    /\ opts.outputImageDir # Null /\ opts.extractPagesToImage = Some(<<5>>)
    /\ opts.outputDataDir = Null /\ opts.outputPdfDir = Null
    /\ ~opts.removeAfterProcessing
    /\ Cardinality(disk \ diskAtCall) = 2

\* C3: the source file is deleted only as the last effect, after every
\* configured write has succeeded; a call that failed has not deleted it.
C3_RemoveLast ==
    /\ \A i \in 1..Len(effects) :
          effects[i].op = "rm" =>
              /\ i = Len(effects)
              /\ opts.removeAfterProcessing
              /\ SubSeq(effects, 1, i - 1) = ConfiguredWrites(opts, fields.slug)
    /\ (InCall /\ Source(filePath) \in diskAtCall /\ Source(filePath) \notin disk)
       => /\ pc \in {"cleanup", "returned"}
          /\ ConfiguredFiles(opts, fields.slug) \subseteq disk
    /\ pc = "failed" =>
          /\ Removed = {}
          /\ Source(filePath) \in diskAtCall => Source(filePath) \in disk

\* C3 witness: a call with every output configured returned, the source
\* deleted after the cover, a page, the JSON file and the PDF copy
C3_Witness ==
    /\ pc = "returned"
    /\ Len(effects) >= 5
    /\ effects[Len(effects)].op = "rm"
    /\ Source(filePath) \notin disk

\* C8: a call that has decoded a document has called pdfDoc.cleanup exactly
\* once when control is back with the caller, and at no time more than once.
C8_CleanupOnce ==
    /\ cleanups <= 1
    /\ (decoded /\ pc \in {"returned", "failed"}) => cleanups = 1

\* the effects of the call are a prefix of the configured ones, the written
\* files are on disk, and a failed call stopped short and returned nothing
C9_PrefixInv ==
    /\ InCall => IsPrefix(effects, ConfiguredEffects(opts, fields.slug, filePath))
    /\ InCall => Written \subseteq disk
    /\ pc = "failed" =>
          /\ retval = <<>>
          /\ failedAt[1] \in {"cover", "pages", "json", "pdf", "rm"}
             => Len(effects) < Len(ConfiguredEffects(opts, fields.slug, filePath))
          /\ failedAt[1] \in {"read", "getPages", "fields"} => effects = <<>>
          /\ failedAt = <<"pages", "render">>
             => /\ effects[1] = Write(File("img", "cover.jpg", fields.slug, 0))
                /\ \A i \in 1..Len(effects) : effects[i].file.dir = "img"

\* after a failure the call performs nothing more
C9_NoLaterStep ==
    pc = "failed" => effects' = effects /\ disk' = disk /\ pc' = "failed"

\* C9: the configured steps run in the order cover, pages, JSON, PDF,
\* removal; a failing step ends the call with the error, nothing later is
\* performed and nothing written is undone, so the effects of a failing
\* call are a proper prefix of the configured ones.
C9_OrderAndAbort == []C9_PrefixInv /\ [][C9_NoLaterStep]_vars

\* C9 witness: the render of a requested page failed with the cover written
\* while a JSON file and a PDF copy were configured
C9_Witness ==
    /\ pc = "failed" /\ failedAt = <<"pages", "render">>
    /\ opts.outputDataDir # Null /\ opts.outputPdfDir # Null
    /\ Len(effects) = 2
    /\ Cardinality(disk \ diskAtCall) = 2

PastFields == pc \in {"cover", "pages", "json", "pdf", "rm", "cleanup", "returned"}

SecondTokenMissing(text) == ~HasSpace(text)
SecondToken(text) == Split(text)[2]

\* C5: a date text that is no month+year gives a null date, an issue text
\* without a numeric second token a null issue number ("Issue 42" gives
\* 42); no error is raised, and the call goes on to perform every
\* configured step.
C5_ParseFailureNonFatal ==
    /\ PastFields =>
          /\ fields.issueText = S_Issue42 => fields.issueNumber = Some(42)
          /\ fields.issueText = S_Issue => fields.issueNumber = Null
          /\ SecondTokenMissing(fields.issueText) => fields.issueNumber = Null
          /\ (~SecondTokenMissing(fields.issueText)
              /\ \E i \in 1..Len(SecondToken(fields.issueText)) :
                    SecondToken(fields.issueText)[i] \notin Digits)
             => fields.issueNumber = Null
          /\ fields.dateText = S_Spring => fields.date = Null
          /\ fields.dateText = S_March2024 => fields.date = Some([year |-> 2024, month |-> 2])
    /\ (pc = "returned" /\ (fields.date = Null \/ fields.issueNumber = Null))
       => effects = ConfiguredEffects(opts, fields.slug, filePath)
    /\ (pc = "failed" /\ failedAt[1] = "fields") => failedAt[2] = "getTextContent"

\* C5 witness: a document whose date and issue number did not parse went
\* through every output step and returned
C5_Witness ==
    /\ pc = "returned"
    /\ fields.issueText = S_Issue /\ fields.issueNumber = Null
    /\ fields.dateText = S_Spring /\ fields.date = Null
    /\ Len(effects) >= 5

-----------------------------------------------------------------------------
(* Properties of scanNewsletters *)

C4_Inv ==
    /\ IsPrefix(started, pdfFiles)
    /\ IsPrefix(completed, started)
    /\ Len(started) <= Len(completed) + 1
    /\ \A i \in 1..Len(pdfFiles) : \A j \in 1..Len(pdfFiles) :
          i < j => pdfFiles[i] < pdfFiles[j]
    /\ (caller = "scan" /\ pc = "failed") => Len(started) = Len(completed) + 1
    /\ scanPc = "done" => completed = pdfFiles

\* once a document has failed, or the scan has thrown, no call is made
C4_Halts ==
    ((caller = "scan" /\ pc = "failed") \/ scanPc = "thrown")
        => started' = started /\ completed' = completed /\ scanPc' = "thrown"

\* C4: the scan processes the listed files one at a time in listing order,
\* each call made only after the one before it returned; the first failing
\* document makes the scan throw, and no later file is processed.
C4_SequentialAndHalting == []C4_Inv /\ [][C4_Halts]_vars

\* C4 witness: the scan threw at the second file of three
C4_Witness ==
    /\ scanPc = "thrown"
    /\ Len(pdfFiles) = 3 /\ Len(started) = 2 /\ Len(completed) = 1

\* a step of a scan changes no file and records no effect
C10_ScanStep == caller = "scan" => disk' = disk /\ effects' = <<>>

\* C10: scanNewsletters passes no options, so during a scan nothing is
\* written or deleted: the files on disk do not change.
C10_ScanLeavesDisk ==
    [](caller = "scan" /\ InCall => opts = DefaultOptions) /\ [][C10_ScanStep]_vars

\* C10 witness: a scan of three files is done
C10_Witness ==
    /\ scanPc = "done" /\ Len(completed) = 3 /\ Cardinality(disk) = 3

=============================================================================
